---- MODULE Spec2Model ----
(***************************************************************************)
(* A model of 3DModel.py: an interactive matplotlib viewer that projects a *)
(* wireframe through perspective, translation and rotation matrices.       *)
(*                                                                         *)
(* Numbers.  The program computes with IEEE doubles.  Here a real x is the *)
(* integer Round(x * Scale): decimal fixed point with four fractional      *)
(* digits.  Sums are exact, every product and quotient is rounded to the   *)
(* nearest representable value, as a floating-point unit rounds each       *)
(* operation.  A quotient by zero is "inf", "-inf" or "nan" as for         *)
(* numpy.float64.  np.cos and np.sin are tabulated at the slider grid      *)
(* (multiples of 0.1 in [-7, 7]), correctly rounded to four digits.        *)
(***************************************************************************)
EXTENDS Integers, Sequences, FiniteSets, TLC

VARIABLES
    pc,             \* control position: a start-up line ("line 95", ...), "idle" or
                    \* "crashed"; in SpecApi "call" / "returned"
    extra_credit,   \* binding of the module-level name extra_credit (line 97)
    guide_axes,     \* the module-level list guide_axes (lines 65-67)
    shape_matrices, \* the dict shape_matrices (lines 95-97)
    base_matrix,    \* the global base_matrix (line 100, line 295)
    global_params,  \* the dict global_params (lines 108-114)
    segments,       \* the segments held by the LineCollection s (lines 284-291)
    colors,         \* the colours held by the LineCollection s (lines 287, 297)
    log_text,       \* the text held by the artist log_text (lines 312-313)
    trace,          \* the statements the last handler executed, in order
    fn,             \* SpecApi: the function applied
    arg,            \* SpecApi: its argument
    ret,            \* SpecApi: its return value
    work,           \* SpecApi: computations the call performed on its argument
    raised          \* the exception raised, or "none"

vars == <<pc, extra_credit, guide_axes, shape_matrices, base_matrix, global_params,
          segments, colors, log_text, trace, fn, arg, ret, work, raised>>

(***************************************************************************)
(* Bounds of the model.                                                    *)
(***************************************************************************)
\* how many of RotSamples the rotation sliders may take
NumRot == 2
\* how many of TransSamples the translation sliders may take
NumTrans == 2
\* how many of DSamples the distance d may take in SpecApi
NumD == 3
\* the most columns of a point matrix handed to a function in SpecApi
MaxCols == 6
\* the most edges of a wireframe handed to shape_to_hom_matrix in SpecApi
MaxEdges == 2

(***************************************************************************)
(* Fixed-point arithmetic.                                                 *)
(***************************************************************************)
Scale == 100 * 100

One == Scale

Abs(n) == IF n < 0 THEN -n ELSE n

Half == Scale \div 2

\* the float product a * b: rounded to nearest, ties upward (\div is the floor)
Mul(a, b) == (a * b + Half) \div Scale

\* the numpy.float64 quotient a / b: rounded to nearest, or inf / nan by zero
Div(a, b) ==
    IF b = 0
    THEN (IF a = 0 THEN "nan" ELSE IF a > 0 THEN "inf" ELSE "-inf")
    ELSE IF b > 0 THEN (2 * a * Scale + b) \div (2 * b)
    ELSE (2 * (-a) * Scale - b) \div (2 * (-b))

CosTable ==
    << 10000, 9950, 9801, 9553, 9211, 8776, 8253, 7648, 6967, 6216,
       5403, 4536, 3624, 2675, 1700, 707, -292, -1288, -2272, -3233,
       -4161, -5048, -5885, -6663, -7374, -8011, -8569, -9041, -9422, -9710,
       -9900, -9991, -9983, -9875, -9668, -9365, -8968, -8481, -7910, -7259,
       -6536, -5748, -4903, -4008, -3073, -2108, -1122, -124, 875, 1865,
       2837, 3780, 4685, 5544, 6347, 7087, 7756, 8347, 8855, 9275,
       9602, 9833, 9965, 9999, 9932, 9766, 9502, 9144, 8694, 8157,
       7539 >>

SinTable ==
    << 0, 998, 1987, 2955, 3894, 4794, 5646, 6442, 7174, 7833,
       8415, 8912, 9320, 9636, 9854, 9975, 9996, 9917, 9738, 9463,
       9093, 8632, 8085, 7457, 6755, 5985, 5155, 4274, 3350, 2392,
       1411, 416, -584, -1577, -2555, -3508, -4425, -5298, -6119, -6878,
       -7568, -8183, -8716, -9162, -9516, -9775, -9937, -9999, -9962, -9825,
       -9589, -9258, -8835, -8323, -7728, -7055, -6313, -5507, -4646, -3739,
       -2794, -1822, -831, 168, 1165, 2151, 3115, 4048, 4941, 5784,
       6570 >>

\* the slider step 0.1 (valstep, line 326)
Tick == Scale \div 10

\* np.cos(theta) for theta on the slider grid
Cos(theta) == CosTable[Abs(theta) \div Tick + 1]

\* np.sin(theta) for theta on the slider grid
Sin(theta) ==
    IF theta >= 0 THEN SinTable[theta \div Tick + 1]
    ELSE -SinTable[(-theta) \div Tick + 1]

(***************************************************************************)
(* Matrices are sequences of rows; m.shape is <<Rows(m), Cols(m)>>.        *)
(***************************************************************************)
Rows(m) == Len(m)

Cols(m) == IF Len(m) = 0 THEN 0 ELSE Len(m[1])

\* np.eye(4)
Eye4 == [i \in 1..4 |-> [j \in 1..4 |-> IF i = j THEN One ELSE 0]]

\* the matrix product A @ B of an (r x 4) and a (4 x c) matrix
MatMul(A, B) ==
    [i \in 1..Rows(A) |->
        [j \in 1..Cols(B) |->
            Mul(A[i][1], B[1][j]) + Mul(A[i][2], B[2][j])
                + Mul(A[i][3], B[3][j]) + Mul(A[i][4], B[4][j])]]

\* m.T
Transpose(m) == [j \in 1..Cols(m) |-> [i \in 1..Rows(m) |-> m[i][j]]]

(***************************************************************************)
(* Wire frames (lines 38-67): a point is a 3-tuple, a line segment a pair  *)
(* of points, a wireframe a list of line segments.                         *)
(***************************************************************************)
Pt(x, y, z) == <<x * One, y * One, z * One>>

cube ==
    << <<Pt(-1, -1, -1), Pt(1, -1, -1)>>,
       <<Pt(1, -1, -1), Pt(1, 1, -1)>>,
       <<Pt(1, 1, -1), Pt(-1, 1, -1)>>,
       <<Pt(-1, 1, -1), Pt(-1, -1, -1)>>,
       <<Pt(-1, -1, -1), Pt(-1, -1, 1)>>,
       <<Pt(1, -1, -1), Pt(1, -1, 1)>>,
       <<Pt(1, 1, -1), Pt(1, 1, 1)>>,
       <<Pt(-1, 1, -1), Pt(-1, 1, 1)>>,
       <<Pt(-1, -1, 1), Pt(1, -1, 1)>>,
       <<Pt(1, -1, 1), Pt(1, 1, 1)>>,
       <<Pt(1, 1, 1), Pt(-1, 1, 1)>>,
       <<Pt(-1, 1, 1), Pt(-1, -1, 1)>> >>

pyramid ==
    << <<Pt(-1, -1, -1), Pt(-1, -1, 1)>>,
       <<Pt(-1, -1, 1), Pt(1, -1, 1)>>,
       <<Pt(1, -1, 1), Pt(1, -1, -1)>>,
       <<Pt(1, -1, -1), Pt(-1, -1, -1)>>,
       <<Pt(-1, -1, -1), Pt(0, 1, 0)>>,
       <<Pt(-1, -1, 1), Pt(0, 1, 0)>>,
       <<Pt(1, -1, 1), Pt(0, 1, 0)>>,
       <<Pt(1, -1, -1), Pt(0, 1, 0)>> >>

\* 0.75
AxisHalf == (3 * Scale) \div 4

\* the value line 65 binds guide_axes to
GuideAxes ==
    << << <<-AxisHalf, 0, 0>>, <<AxisHalf, 0, 0>> >>,
       << <<0, -AxisHalf, 0>>, <<0, AxisHalf, 0>> >>,
       << <<0, 0, -AxisHalf>>, <<0, 0, AxisHalf>> >> >>

\* sum(shape, []): the segments' endpoints in one list
RECURSIVE Flatten(_)
Flatten(shape) ==
    IF shape = <<>> THEN <<>> ELSE Head(shape) \o Flatten(Tail(shape))

\* variant: line 91 written shape += guide_axes, which extends the caller's list
shape_to_hom_matrix_extending(shape, axes) ==
    LET local == shape \o axes
        m == Transpose(Flatten(local))
    IN  [m |-> Append(m, [j \in 1..Cols(m) |-> One]),
         shape |-> local,
         guide_axes |-> axes]

\* shape_to_hom_matrix(shape) with the global guide_axes bound to axes.  The result
\* m is the return value; shape and guide_axes are the caller's list and the global
\* list after the call (line 91 builds a new list and rebinds the local name, so
\* both are as before).
shape_to_hom_matrix_of(shape, axes) ==
    LET local == shape \o axes
        m == Transpose(Flatten(local))
    IN  [m |-> Append(m, [j \in 1..Cols(m) |-> One]),
         shape |-> shape,
         guide_axes |-> axes]

shape_to_hom_matrix(shape) == shape_to_hom_matrix_of(shape, guide_axes)

(***************************************************************************)
(* Transformations (lines 102-238).                                        *)
(***************************************************************************)
\* the value lines 108-114 bind global_params to
DefaultParams ==
    [d |-> 10 * One, tx |-> 0, ty |-> 0, tz |-> 0, rx |-> 0, ry |-> 0, rz |-> 0]

\* variant: the fourth row without its 1
perspective_without_one(d) ==
    [Eye4 EXCEPT ![3] = <<0, 0, 0, 0>>,
                 ![4] = <<0, 0, Div(-One, d), 0>>]

perspective(d) ==
    [Eye4 EXCEPT ![3] = <<0, 0, 0, 0>>,
                 ![4] = <<0, 0, Div(-One, d), One>>]

hom_rotate_x(theta) ==
    [Eye4 EXCEPT ![2] = <<0, Cos(theta), -Sin(theta), 0>>,
                 ![3] = <<0, Sin(theta), Cos(theta), 0>>]

hom_rotate_y(theta) ==
    [Eye4 EXCEPT ![1] = <<Cos(theta), 0, Sin(theta), 0>>,
                 ![3] = <<-Sin(theta), 0, Cos(theta), 0>>]

hom_rotate_z(theta) ==
    [Eye4 EXCEPT ![1] = <<Cos(theta), -Sin(theta), 0, 0>>,
                 ![2] = <<Sin(theta), Cos(theta), 0, 0>>]

translate(x, y, z) ==
    [Eye4 EXCEPT ![1] = <<One, 0, 0, x>>,
                 ![2] = <<0, One, 0, y>>,
                 ![3] = <<0, 0, One, z>>]

\* np.linalg.multi_dot of a list of square matrices of one size: every
\* parenthesisation costs the same, and the chain-order search keeps the first
\* split it tries, A1 @ (A2 @ (... @ An))
RECURSIVE multi_dot(_)
multi_dot(ms) ==
    IF Len(ms) = 1 THEN ms[1] ELSE MatMul(Head(ms), multi_dot(Tail(ms)))

\* variant: the translation applied before the rotations
full_transform_matrix_translate_first(p) ==
    multi_dot(<< perspective(p.d),
                 hom_rotate_x(p.rx),
                 hom_rotate_y(p.ry),
                 hom_rotate_z(p.rz),
                 translate(p.tx, p.ty, p.tz) >>)

\* full_transform_matrix() with global_params bound to p
full_transform_matrix_of(p) ==
    multi_dot(<< perspective(p.d),
                 translate(p.tx, p.ty, p.tz),
                 hom_rotate_x(p.rx),
                 hom_rotate_y(p.ry),
                 hom_rotate_z(p.rz) >>)

full_transform_matrix == full_transform_matrix_of(global_params)

(***************************************************************************)
(* Projection (lines 240-278).  A call returns a record: raised is the     *)
(* exception it ends in or "none", value its return value, work the        *)
(* computations it performed on its argument, in order.                    *)
(***************************************************************************)
\* variant: the loop advancing j by one, pairing across edges
RECURSIVE PairFrom_sliding(_, _)
PairFrom_sliding(arr, j) ==
    IF j < Len(arr) - 1
    THEN << <<arr[j + 1], arr[j + 2]>> >> \o PairFrom_sliding(arr, j + 1)
    ELSE <<>>

\* the while loop of lines 269-274 from index j (0-based, as in the source)
RECURSIVE PairFrom(_, _)
PairFrom(arr, j) ==
    IF j < Len(arr) - 1
    THEN << <<arr[j + 1], arr[j + 2]>> >> \o PairFrom(arr, j + 2)
    ELSE <<>>

matrix_to_projection(m) ==
    IF Rows(m) # 4
    THEN [raised |-> "AssertionError", value |-> <<>>, work |-> <<>>]
    ELSE IF Cols(m) % 2 # 0
    THEN [raised |-> "AssertionError", value |-> <<>>, work |-> <<>>]
    ELSE LET arr == [i \in 1..Cols(m) |->
                        <<Div(m[1][i], m[4][i]), Div(m[2][i], m[4][i])>>]
         IN  [raised |-> "none", value |-> PairFrom(arr, 0),
              work |-> <<"divide", "pair">>]

\* full_transform(shape_matrix) with global_params bound to p.  The operator @
\* raises ValueError when shape_matrix has not the four rows a 4x4 matrix needs.
full_transform_of(p, shape_matrix) ==
    IF Rows(shape_matrix) # 4
    THEN [raised |-> "ValueError", value |-> <<>>, work |-> <<>>]
    ELSE LET r == matrix_to_projection(MatMul(full_transform_matrix_of(p), shape_matrix))
         IN  [r EXCEPT !.work = <<"matmul">> \o r.work]

full_transform(shape_matrix) == full_transform_of(global_params, shape_matrix)

(***************************************************************************)
(* Display and log (lines 284-313).                                        *)
(***************************************************************************)
\* n * ['C0']: a list repeated a negative number of times is empty
Repeat(n, x) == [i \in 1..n |-> x]

\* variant: one default colour too many
line_colors_one_more(m) == Repeat(Cols(m) \div 2 - 2, "C0") \o <<"r", "g", "b">>

\* the colors argument of lines 287 and 297
line_colors(m) == Repeat(Cols(m) \div 2 - 3, "C0") \o <<"r", "g", "b">>

\* log() with global_params bound to p: the header and the matrix the text
\* renders (numpy's formatting of the entries is not modelled)
log_of(p) == <<"Transformation (Homogeneous):", full_transform_matrix_of(p)>>

log == log_of(global_params)

(***************************************************************************)
(* Sliders and radio buttons (lines 319-365).                              *)
(***************************************************************************)
Min(a, b) == IF a < b THEN a ELSE b

\* slider values the model lets the rotation sliders take: grid points of [-7, 7]
RotSamples == <<0, 8 * Tick, -70 * Tick, 16 * Tick, 31 * Tick>>

\* slider values the model lets the translation sliders take: grid points of [-5, 5]
TransSamples == <<0, 5 * One, -5 * One, 25 * Tick>>

\* the first n of samples that slider(name, pos, r) can be set to
SliderValues(r, samples, n) ==
    {v \in {samples[i] : i \in 1..Min(n, Len(samples))} : -r <= v /\ v <= r}

\* the list updates (lines 343-348) with each slider's label and range r (lines 328-333)
updates ==
    << [pname |-> "rx", label |-> "roll",  r |-> 7 * One],
       [pname |-> "ry", label |-> "pitch", r |-> 7 * One],
       [pname |-> "rz", label |-> "yaw",   r |-> 7 * One],
       [pname |-> "tx", label |-> "x",     r |-> 5 * One],
       [pname |-> "ty", label |-> "y",     r |-> 5 * One],
       [pname |-> "tz", label |-> "z",     r |-> 5 * One] >>

IsRotation(pname) == pname \in {"rx", "ry", "rz"}

ValuesOf(u) ==
    IF IsRotation(u.pname) THEN SliderValues(u.r, RotSamples, NumRot)
    ELSE SliderValues(u.r, TransSamples, NumTrans)

\* variant: the projection recomputed before the parameter is stored
update_stale ==
    << "update_curr_shape()",
       "global_params[pname] = val",
       "update_log()",
       "fig.canvas.draw_idle()" >>

\* variant: the log not refreshed
update_without_log ==
    << "global_params[pname] = val",
       "update_curr_shape()",
       "fig.canvas.draw_idle()" >>

\* the body of update (lines 336-340), statement by statement
update ==
    << "global_params[pname] = val",
       "update_curr_shape()",
       "update_log()",
       "fig.canvas.draw_idle()" >>

\* the body of set_curr_shape (lines 293-297)
set_curr_shape ==
    << "base_matrix = m",
       "update_curr_shape()",
       "s.set(colors)" >>

\* the body of shapes (lines 360-362), the call of set_curr_shape expanded
shapes == set_curr_shape \o << "fig.canvas.draw()" >>

\* the program state a handler reads and writes
Store ==
    [global_params |-> global_params, base_matrix |-> base_matrix,
     segments |-> segments, colors |-> colors, log_text |-> log_text,
     trace |-> <<>>, raised |-> "none"]

\* update_curr_shape() (lines 290-291) on store st
update_curr_shape(st) ==
    LET r == full_transform_of(st.global_params, st.base_matrix)
    IN  IF r.raised # "none" THEN [st EXCEPT !.raised = r.raised]
        ELSE [st EXCEPT !.segments = r.value]

\* update_log() (line 313) on store st
update_log(st) == [st EXCEPT !.log_text = log_of(st.global_params)]

\* variant: selecting a shape also resets the view
Exec_resetting_view(stmt, st, loc) ==
    LET done ==
            CASE stmt = "global_params[pname] = val" ->
                    [st EXCEPT !.global_params[loc.pname] = loc.val]
              [] stmt = "base_matrix = m" ->
                    [st EXCEPT !.base_matrix = loc.m, !.global_params = DefaultParams]
              [] stmt = "update_curr_shape()" -> update_curr_shape(st)
              [] stmt = "update_log()" -> update_log(st)
              [] stmt = "s.set(colors)" ->
                    [st EXCEPT !.colors = line_colors(st.base_matrix)]
              [] OTHER -> st
    IN  IF done.raised # "none" THEN done
        ELSE [done EXCEPT !.trace = Append(st.trace, stmt)]

\* one statement of a handler on store st; loc holds the handler's arguments.
\* The two draw calls change only the GUI toolkit's state.
Exec(stmt, st, loc) ==
    LET done ==
            CASE stmt = "global_params[pname] = val" ->
                    [st EXCEPT !.global_params[loc.pname] = loc.val]
              [] stmt = "base_matrix = m" ->
                    [st EXCEPT !.base_matrix = loc.m]
              [] stmt = "update_curr_shape()" -> update_curr_shape(st)
              [] stmt = "update_log()" -> update_log(st)
              [] stmt = "s.set(colors)" ->
                    [st EXCEPT !.colors = line_colors(st.base_matrix)]
              [] OTHER -> st
    IN  IF done.raised # "none" THEN done
        ELSE [done EXCEPT !.trace = Append(st.trace, stmt)]

\* the statements of body from the i-th on, until one raises
RECURSIVE RunFrom(_, _, _, _)
RunFrom(body, i, st, loc) ==
    IF i > Len(body) \/ st.raised # "none" THEN st
    ELSE RunFrom(body, i + 1, Exec(body[i], st, loc), loc)

Run(body, loc) == RunFrom(body, 1, Store, loc)

Unset == "unset"

(***************************************************************************)
(* Start-up: the module's top-level statements, from line 95 on.           *)
(***************************************************************************)
\* extra_credit is a name line 97 reads and no line of the file binds; the TODO
\* there asks for a wireframe.  The file as it stands is bound = FALSE.
ExtraCreditBindings ==
    { [bound |-> FALSE, value |-> <<>>], [bound |-> TRUE, value |-> <<>>] }

Init ==
    /\ pc = "line 95"
    /\ extra_credit \in ExtraCreditBindings
    /\ guide_axes = GuideAxes
    /\ shape_matrices = Unset
    /\ base_matrix = Unset
    /\ global_params = Unset
    /\ segments = Unset
    /\ colors = Unset
    /\ log_text = Unset
    /\ trace = <<>>
    /\ fn = "none"
    /\ arg = <<>>
    /\ ret = <<>>
    /\ work = <<>>
    /\ raised = "none"

\* lines 95-97: the dict display evaluates its values in order
BuildShapeMatrices ==
    /\ pc = "line 95"
    /\ IF extra_credit.bound
       THEN LET c == shape_to_hom_matrix_of(cube, guide_axes)
                q == shape_to_hom_matrix_of(pyramid, c.guide_axes)
                x == shape_to_hom_matrix_of(extra_credit.value, q.guide_axes)
            IN  /\ shape_matrices' = [cube |-> c.m, pyramid |-> q.m, TODO |-> x.m]
                /\ guide_axes' = x.guide_axes
                /\ pc' = "line 100"
                /\ raised' = raised
       ELSE /\ raised' = "NameError"
            /\ pc' = "crashed"
            /\ UNCHANGED <<shape_matrices, guide_axes>>
    /\ UNCHANGED <<extra_credit, base_matrix, global_params, segments, colors,
                   log_text, trace, fn, arg, ret, work>>

\* line 100
SelectCube ==
    /\ pc = "line 100"
    /\ base_matrix' = shape_matrices["cube"]
    /\ pc' = "line 108"
    /\ UNCHANGED <<extra_credit, guide_axes, shape_matrices, global_params, segments,
                   colors, log_text, trace, fn, arg, ret, work, raised>>

\* lines 108-114
InitParams ==
    /\ pc = "line 108"
    /\ global_params' = DefaultParams
    /\ pc' = "line 284"
    /\ UNCHANGED <<extra_credit, guide_axes, shape_matrices, base_matrix, segments,
                   colors, log_text, trace, fn, arg, ret, work, raised>>

\* lines 284-288
CreateLineCollection ==
    /\ pc = "line 284"
    /\ LET r == full_transform(base_matrix)
       IN  IF r.raised # "none"
           THEN /\ raised' = r.raised
                /\ pc' = "crashed"
                /\ UNCHANGED <<segments, colors>>
           ELSE /\ segments' = r.value
                /\ colors' = line_colors(base_matrix)
                /\ pc' = "line 312"
                /\ raised' = raised
    /\ UNCHANGED <<extra_credit, guide_axes, shape_matrices, base_matrix, global_params,
                   log_text, trace, fn, arg, ret, work>>

\* line 312
CreateLogText ==
    /\ pc = "line 312"
    /\ log_text' = log
    /\ pc' = "line 328"
    /\ UNCHANGED <<extra_credit, guide_axes, shape_matrices, base_matrix, global_params,
                   segments, colors, trace, fn, arg, ret, work, raised>>

\* lines 328-371: the sliders and radio buttons are made, the callbacks connected,
\* and plt.show() enters the event loop
ConnectAndShow ==
    /\ pc = "line 328"
    /\ pc' = "idle"
    /\ UNCHANGED <<extra_credit, guide_axes, shape_matrices, base_matrix, global_params,
                   segments, colors, log_text, trace, fn, arg, ret, work, raised>>

(***************************************************************************)
(* The event loop: one widget callback runs to its end before the next.    *)
(* An exception a callback raises is reported and the loop goes on.        *)
(***************************************************************************)
HandlerResult(st) ==
    /\ global_params' = st.global_params
    /\ base_matrix' = st.base_matrix
    /\ segments' = st.segments
    /\ colors' = st.colors
    /\ log_text' = st.log_text
    /\ trace' = st.trace
    /\ raised' = st.raised

\* a slider of updates moves to val: its callback update(val) runs (lines 336-341)
SliderChanged ==
    /\ pc = "idle"
    /\ \E i \in 1..Len(updates) :
         \E val \in ValuesOf(updates[i]) \ {global_params[updates[i].pname]} :
            \E st \in {Run(update, [pname |-> updates[i].pname, val |-> val])} :
                  HandlerResult(st)
    /\ UNCHANGED <<pc, extra_credit, guide_axes, shape_matrices, fn, arg, ret, work>>

\* a radio button is clicked: the callback shapes(label) runs (lines 360-365)
RadioClicked ==
    /\ pc = "idle"
    /\ \E label \in DOMAIN shape_matrices :
            \E st \in {Run(shapes, [m |-> shape_matrices[label]])} :
                  HandlerResult(st)
    /\ UNCHANGED <<pc, extra_credit, guide_axes, shape_matrices, fn, arg, ret, work>>

Next ==
    \/ BuildShapeMatrices
    \/ SelectCube
    \/ InitParams
    \/ CreateLineCollection
    \/ CreateLogText
    \/ ConnectAndShow
    \/ SliderChanged
    \/ RadioClicked

Spec == Init /\ [][Next]_vars

(***************************************************************************)
(* SpecApi: the module's functions applied to arguments drawn from bounded *)
(* sets, one call per behaviour, in a program that has started up.         *)
(***************************************************************************)
\* values of the distance d: each has a reciprocal with four decimal digits
DSamples == <<10 * One, 5 * One, -4 * One, 2 * One, 20 * One>>

DValues == {DSamples[i] : i \in 1..Min(NumD, Len(DSamples))}

RotValues == {RotSamples[i] : i \in 1..Min(NumRot, Len(RotSamples))}

TransValues == {TransSamples[i] : i \in 1..Min(NumTrans, Len(TransSamples))}

\* parameter states full_transform_matrix is applied in
ApiParams ==
    [d : DValues, tx : TransValues, ty : TransValues, tz : TransValues,
     rx : RotValues, ry : RotValues, rz : RotValues]

\* parameter states the functions of a point matrix are applied in
ApiMatrixParams ==
    { DefaultParams,
      [DefaultParams EXCEPT !.tx = One, !.tz = 5 * One, !.rx = 8 * Tick] }

\* columns of the point matrices: homogeneous points with a nonzero fourth entry
ColSamples ==
    { <<One, One, 0, One>>, <<One, One, 0, 2 * One>>, <<-3 * One, 2 * One, One, 4 * One>> }

\* the matrix with the columns cs, rows many rows
MatrixOf(cs, rows) == [i \in 1..rows |-> [j \in 1..Len(cs) |-> cs[j][i]]]

ColumnLists == UNION {[1..n -> ColSamples] : n \in 0..MaxCols}

\* four-row matrices of up to MaxCols columns, three-row ones of up to two, and
\* the matrices shape_to_hom_matrix builds of the empty wireframe and of pyramid
MatrixSamples ==
    {MatrixOf(cs, 4) : cs \in ColumnLists}
        \cup {MatrixOf(cs, 3) : cs \in {c \in ColumnLists : Len(c) <= 2}}
        \cup {shape_to_hom_matrix_of(<<>>, GuideAxes).m,
              shape_to_hom_matrix_of(pyramid, GuideAxes).m}

EdgeSamples ==
    { <<Pt(0, 0, 0), Pt(1, 2, 3)>>, <<Pt(1, 2, 3), Pt(-1, 0, 2)>>, <<Pt(2, 2, 2), Pt(0, 0, 0)>> }

\* wireframes of up to MaxEdges edges
WireframeSamples == UNION {[1..n -> EdgeSamples] : n \in 0..MaxEdges}

MatrixFunctions == {"matrix_to_projection", "full_transform", "set_curr_shape"}

InitApi ==
    /\ pc = "call"
    /\ extra_credit = [bound |-> TRUE, value |-> <<>>]
    /\ guide_axes = GuideAxes
    /\ shape_matrices = [cube |-> shape_to_hom_matrix_of(cube, GuideAxes).m,
                         pyramid |-> shape_to_hom_matrix_of(pyramid, GuideAxes).m,
                         TODO |-> shape_to_hom_matrix_of(<<>>, GuideAxes).m]
    /\ base_matrix = shape_matrices["cube"]
    /\ fn \in {"shape_to_hom_matrix", "full_transform_matrix"} \cup MatrixFunctions
    /\ global_params \in
            IF fn = "full_transform_matrix" THEN ApiParams
            ELSE IF fn \in MatrixFunctions THEN ApiMatrixParams
            ELSE {DefaultParams}
    /\ segments = full_transform(base_matrix).value
    /\ colors = line_colors(base_matrix)
    /\ log_text = log
    /\ arg \in
            IF fn = "shape_to_hom_matrix" THEN WireframeSamples
            ELSE IF fn \in MatrixFunctions THEN MatrixSamples
            ELSE {<<>>}
    /\ trace = <<>>
    /\ ret = <<>>
    /\ work = <<>>
    /\ raised = "none"

\* shape_to_hom_matrix(arg); the call may be repeated on the same list
ApiShapeToHom ==
    /\ pc \in {"call", "returned"}
    /\ fn = "shape_to_hom_matrix"
    /\ \E r \in {shape_to_hom_matrix(arg)} :
            /\ ret' = r.m
            /\ arg' = r.shape
            /\ guide_axes' = r.guide_axes
    /\ pc' = "returned"
    /\ UNCHANGED <<extra_credit, shape_matrices, base_matrix, global_params, segments,
                   colors, log_text, trace, fn, work, raised>>

\* full_transform_matrix()
ApiFullTransformMatrix ==
    /\ pc = "call"
    /\ fn = "full_transform_matrix"
    /\ ret' = full_transform_matrix
    /\ pc' = "returned"
    /\ UNCHANGED <<extra_credit, guide_axes, shape_matrices, base_matrix, global_params,
                   segments, colors, log_text, trace, fn, arg, work, raised>>

\* matrix_to_projection(arg)
ApiMatrixToProjection ==
    /\ pc = "call"
    /\ fn = "matrix_to_projection"
    /\ \E r \in {matrix_to_projection(arg)} :
            /\ ret' = r.value
            /\ work' = r.work
            /\ raised' = r.raised
    /\ pc' = "returned"
    /\ UNCHANGED <<extra_credit, guide_axes, shape_matrices, base_matrix, global_params,
                   segments, colors, log_text, trace, fn, arg>>

\* full_transform(arg)
ApiFullTransform ==
    /\ pc = "call"
    /\ fn = "full_transform"
    /\ \E r \in {full_transform(arg)} :
            /\ ret' = r.value
            /\ work' = r.work
            /\ raised' = r.raised
    /\ pc' = "returned"
    /\ UNCHANGED <<extra_credit, guide_axes, shape_matrices, base_matrix, global_params,
                   segments, colors, log_text, trace, fn, arg>>

\* set_curr_shape(arg)
ApiSetCurrShape ==
    /\ pc = "call"
    /\ fn = "set_curr_shape"
    /\ \E st \in {Run(set_curr_shape, [m |-> arg])} : HandlerResult(st)
    /\ pc' = "returned"
    /\ UNCHANGED <<extra_credit, guide_axes, shape_matrices, fn, arg, ret, work>>

NextApi ==
    \/ ApiShapeToHom
    \/ ApiFullTransformMatrix
    \/ ApiMatrixToProjection
    \/ ApiFullTransform
    \/ ApiSetCurrShape

SpecApi == InitApi /\ [][NextApi]_vars

(***************************************************************************)
(* Properties.                                                             *)
(***************************************************************************)
Interactive == pc = "idle"

Returned(f) == pc = "returned" /\ fn = f

IsMutation(stmt) == stmt \in {"global_params[pname] = val", "base_matrix = m"}

Positions(tr, stmt) == {i \in 1..Len(tr) : tr[i] = stmt}

\* C1: whenever the program waits for the next event, the segments the renderer
\* holds are the projection of the active shape under the current parameters.
C1_SegmentsAreCurrent ==
    Interactive =>
        /\ raised = "none"
        /\ segments = full_transform_of(global_params, base_matrix).value

C1_Witness ==
    /\ Interactive
    /\ global_params.rx # 0
    /\ global_params.tz # 0
    /\ base_matrix = shape_matrices["pyramid"]
    /\ trace # <<>>
    /\ trace[1] = "global_params[pname] = val"

\* C6 as stated: every handler run makes one mutation, first, and after it
\* recomputes the projection and then the matrix text.
C6_EveryEventRecomputesBoth ==
    (Interactive /\ trace # <<>>) =>
        /\ IsMutation(trace[1])
        /\ \A i \in 2..Len(trace) : ~IsMutation(trace[i])
        /\ \E i \in Positions(trace, "update_curr_shape()") :
             \E j \in Positions(trace, "update_log()") : 1 < i /\ i < j

\* C6 amended: every handler run makes one mutation, first, and recomputes the
\* projection after it; a slider's run then recomputes the matrix text; a radio
\* button's run does not, and the text it leaves is still that of the current
\* combined matrix.
C6_SliderRecomputesBothRadioProjection ==
    (Interactive /\ trace # <<>>) =>
        /\ IsMutation(trace[1])
        /\ \A i \in 2..Len(trace) : ~IsMutation(trace[i])
        /\ \E i \in Positions(trace, "update_curr_shape()") : 1 < i
        /\ trace[1] = "global_params[pname] = val" =>
             \E i \in Positions(trace, "update_curr_shape()") :
                \E j \in Positions(trace, "update_log()") : i < j
        /\ trace[1] = "base_matrix = m" =>
             /\ Positions(trace, "update_log()") = {}
             /\ log_text = log_of(global_params)

C6_Witness ==
    /\ Interactive
    /\ trace # <<>>
    /\ trace[1] = "base_matrix = m"
    /\ global_params.ry # 0
    /\ log_text # log_of(DefaultParams)

SliderParams == {"rx", "ry", "rz", "tx", "ty", "tz"}

ParamsSet == pc \in {"line 284", "line 312", "line 328", "idle"}

\* C9: with cube or pyramid active, every column of the transformed point matrix
\* full_transform_matrix() @ base_matrix has a positive fourth coordinate.
C9_DivisorPositive ==
    (ParamsSet /\ base_matrix \in {shape_matrices["cube"], shape_matrices["pyramid"]}) =>
        \A M \in {full_transform_matrix_of(global_params)} :
            \A j \in 1..Cols(base_matrix) : MatMul(M, base_matrix)[4][j] > 0

C9_Witness ==
    /\ Interactive
    /\ base_matrix = shape_matrices["cube"]
    /\ global_params.tz = 5 * One
    /\ global_params.rx # 0
    /\ global_params.ry # 0
    /\ \E M \in {full_transform_matrix_of(global_params)} :
            \E j \in 1..Cols(base_matrix) :
                MatMul(M, base_matrix)[4][j] < (35 * One) \div 100

\* C10 as stated: no start-up step ends in an error.
C10_StartupRaisesNothing == pc # "crashed" /\ raised = "none"

\* the reference axes' origin (0, 0, 0, 1) as a one-column point matrix
OriginColumn == << <<0>>, <<0>>, <<0>>, <<One>> >>

\* C2: the combined matrix sends the reference axes' origin to
\* (tx, ty, 0, 1 - tz/d), whatever rx, ry and rz are.
C2_OriginImage ==
    Returned("full_transform_matrix") =>
        MatMul(ret, OriginColumn) =
            << <<global_params.tx>>,
               <<global_params.ty>>,
               <<0>>,
               <<One - Div(global_params.tz, global_params.d)>> >>

C2_Witness ==
    /\ Returned("full_transform_matrix")
    /\ global_params.rx # 0
    /\ global_params.rz # 0
    /\ global_params.tx # 0
    /\ global_params.tz # 0
    /\ global_params.d # 10 * One

ValidShape(m) == Rows(m) = 4 /\ Cols(m) % 2 = 0

\* column i of m after the perspective divide
Divided(m, i) == <<Div(m[1][i], m[4][i]), Div(m[2][i], m[4][i])>>

\* [[1, 1], [1, 1], [0, 0], [1, 2]]
ExampleMatrix == << <<One, One>>, <<One, One>>, <<0, 0>>, <<One, 2 * One>> >>

\* C3: of a matrix of four rows and 2k columns matrix_to_projection returns k
\* segments, the j-th made of columns 2j-1 and 2j (counted from 1) after the
\* perspective divide; the example gives [(1, 1), (0.5, 0.5)] and the matrix of
\* the empty wireframe three segments.
C3_SegmentsPairColumns ==
    (Returned("matrix_to_projection") /\ ValidShape(arg)) =>
        /\ raised = "none"
        /\ Len(ret) * 2 = Cols(arg)
        /\ \A j \in 1..Len(ret) :
              ret[j] = <<Divided(arg, 2 * j - 1), Divided(arg, 2 * j)>>
        /\ arg = ExampleMatrix =>
              ret = << << <<One, One>>, <<Half, Half>> >> >>
        /\ arg = shape_to_hom_matrix_of(<<>>, GuideAxes).m => Len(ret) = 3

C3_Witness ==
    /\ Returned("matrix_to_projection")
    /\ Cols(arg) = 4
    /\ Len(ret) = 2
    /\ ret[1] # ret[2]
    /\ ret[1][1] # ret[1][2]

\* C4: shape_to_hom_matrix of a wireframe of n edges returns four rows and
\* 2(n + 3) columns, the last row all ones, the first 2n columns the edges'
\* endpoints in order, the last six the X, Y, Z reference axes; the wireframe
\* and guide_axes are as before the call, and a repeated call returns the same.
C4_HomMatrixLayout ==
    /\ [](Returned("shape_to_hom_matrix") =>
            /\ Rows(ret) = 4
            /\ Cols(ret) = 2 * (Len(arg) + 3)
            /\ \A j \in 1..Cols(ret) : ret[4][j] = One
            /\ \A e \in 1..Len(arg) : \A q \in 1..2 : \A c \in 1..3 :
                  ret[c][2 * (e - 1) + q] = arg[e][q][c]
            /\ [c \in 1..3 |-> [j \in 1..6 |-> ret[c][2 * Len(arg) + j]]] =
                  << <<-AxisHalf, AxisHalf, 0, 0, 0, 0>>,
                     <<0, 0, -AxisHalf, AxisHalf, 0, 0>>,
                     <<0, 0, 0, 0, -AxisHalf, AxisHalf>> >>)
    /\ [][fn = "shape_to_hom_matrix" =>
            /\ arg' = arg
            /\ guide_axes' = guide_axes
            /\ pc = "returned" => ret' = ret]_vars

C4_Witness ==
    /\ Returned("shape_to_hom_matrix")
    /\ Len(arg) = 2
    /\ arg[1] # arg[2]

\* C5 as stated: projecting a matrix of three rows or of an odd number of
\* columns ends in the projector's shape error with no computation done on the
\* matrix, and leaves the parameters, the active shape and the segments alone.
C5_InvalidShapeRejectedFirst ==
    (pc = "returned" /\ fn \in {"matrix_to_projection", "full_transform"}
        /\ ~ValidShape(arg)) =>
        /\ raised = "AssertionError"
        /\ work = <<>>
        /\ ret = <<>>
        /\ base_matrix = shape_matrices["cube"]
        /\ segments = full_transform_of(global_params, base_matrix).value

ParallelColours ==
    /\ Len(colors) = Len(segments)
    /\ Len(colors) >= 3
    /\ SubSeq(colors, Len(colors) - 2, Len(colors)) = <<"r", "g", "b">>
    /\ \A i \in 1..(Len(colors) - 3) : colors[i] = "C0"

\* C7 as stated: after initialisation and after set_curr_shape of any matrix of
\* four rows and 2k columns, k >= 0, the colours are parallel to the segments.
C7_ColoursParallel ==
    (pc = "call" \/ (Returned("set_curr_shape") /\ ValidShape(arg))) => ParallelColours

\* C7 amended: the same for k >= 3.
C7_ColoursParallelFromThreeEdges ==
    (pc = "call" \/ (Returned("set_curr_shape") /\ ValidShape(arg) /\ Cols(arg) >= 6)) =>
        /\ raised = "none"
        /\ base_matrix = (IF pc = "call" THEN shape_matrices["cube"] ELSE arg)
        /\ Len(segments) * 2 = Cols(base_matrix)
        /\ ParallelColours

C7_Witness ==
    /\ Returned("set_curr_shape")
    /\ Cols(arg) = 22
    /\ Len(colors) = 11
    /\ global_params.rx # 0

====
